---- MODULE Spec2Model ----
(***************************************************************************)
(* A model of magenta/interfaces/midi/midi_hub.py: the MidiHub dispatcher  *)
(* (passthrough texture policy, signal registry, live captors), the        *)
(* MidiPlayer thread and the MidiCaptor threads.  Wall-clock time is the   *)
(* integer variable `now`; a time field of 0 is mido's / protobuf's        *)
(* default ("unset").                                                      *)
(***************************************************************************)
EXTENDS Integers, Sequences, FiniteSets, TLC

VARIABLES
  now,            \* time.time()
  \* ---- MidiHub
  texture,        \* MidiHub._texture_type
  passthrough,    \* MidiHub._passthrough
  hubOpenNotes,   \* MidiHub._open_notes
  signals,        \* MidiHub._signals: the keys that have a Condition
  captureThreads, \* MidiHub._capture_threads: sequence of captor ids
  outport,        \* every message sent to the output port, in order
  lastIn,         \* the last message the transport delivered to the callback
  nIn,            \* how many messages the transport has delivered
  hubRaised,      \* the exception the last callback / setter call ended with
  metronome,      \* MidiHub._metronome, the Metronome objects and their threads
  waiter,         \* the threads calling wait_for_signal
  \* ---- MidiCaptor
  captor,         \* captor id -> the captor object and its thread
  heap,           \* the NoteSequence objects, by reference
  client,         \* the caller of captured_sequence / stop
  \* ---- MidiPlayer
  player,         \* the MidiPlayer object and its thread
  plClient        \* the callers of update_sequence / stop

hubVars    == <<texture, passthrough, hubOpenNotes, signals, captureThreads,
                lastIn, nIn, hubRaised, metronome>>
captorVars == <<captor, heap, client>>
playerVars == <<player, plClient>>
vars       == <<now, hubVars, outport, waiter, captorVars, playerVars>>

(***************************************************************************)
(* Bounds of the model.                                                    *)
(***************************************************************************)
MaxTime  == 2   \* the hub's clock runs from 1 to MaxTime
MaxInput == 3   \* messages the transport delivers in one behaviour
MaxPlayTime == 3 \* the clock of a player runs from 1 to MaxPlayTime
MaxUpdates == 2  \* update_sequence calls after construction
MaxCapTime == 2  \* the clock of a captor runs from 1 to MaxCapTime
MaxCalls == 2    \* captured_sequence calls on a captor
MaxMetroTime == 4  \* the clock of a metronome runs from 1 to MaxMetroTime
MaxMetroCalls == 2 \* start_metronome / stop_metronome calls on a hub

(***************************************************************************)
(* Program constants.                                                      *)
(***************************************************************************)
MONOPHONIC == 1
POLYPHONIC == 2
NoTime     == -1      \* None, for an optional time argument
Pitches    == {60, 64}

(***************************************************************************)
(* mido.Message                                                            *)
(***************************************************************************)
Message(type, note, velocity, channel, time) ==
  [type |-> type, note |-> note, velocity |-> velocity,
   channel |-> channel, time |-> time]

\* mido.Message('note_off', note=p): velocity, channel and time are mido's
\* defaults.
SynthNoteOff(p) == Message("note_off", p, 64, 0, 0)

\* A key that keeps the time field (include_time left at its default).
FormatAsString_WithTime(msg) ==
  <<msg.type, msg.channel, msg.note, msg.velocity, msg.time>>

\* mido.format_as_string(msg, include_time=False): every field but the time.
FormatAsString(msg) == <<msg.type, msg.channel, msg.note, msg.velocity>>

Stamp(msg, t) == [msg EXCEPT !.time = t]

NoMsg == Message("none", 0, 0, 0, 0)

\* music_pb2.NoteSequence.Note; an end_time of 0 is unset: the note is open.
Note(pitch, velocity, start_time, end_time) ==
  [pitch |-> pitch, velocity |-> velocity,
   start_time |-> start_time, end_time |-> end_time]

\* music_pb2.NoteSequence
NoteSequence(qpm, total_time, notes) ==
  [qpm |-> qpm, total_time |-> total_time, notes |-> notes]

\* The messages the transport can deliver (time not yet stamped).
InputMsgs ==
  {Message(t, p, 64, 0, 0) : t \in {"note_on", "note_off"}, p \in Pitches}
    \cup {Message("note_on", 60, 0, 0, 0), Message("note_on", 60, 64, 1, 0),
          Message("control_change", 7, 64, 0, 0),
          Message("program_change", 5, 0, 0, 0)}

\* The messages a thread may wait for with wait_for_signal.
SignalMsgs ==
  {Message("note_on", 60, 64, 0, 0), Message("control_change", 7, 64, 0, 0)}

Waiters   == {1, 2}
CaptorIds == {1, 2}

\* All orders in which the elements of a set can be popped.
Perms(S) ==
  {f \in [1..Cardinality(S) -> S] : \A i, j \in 1..Cardinality(S) : f[i] = f[j] => i = j}

Range(f) == {f[i] : i \in DOMAIN f}

(***************************************************************************)
(* The clock.                                                              *)
(***************************************************************************)
Tick ==
  /\ now < MaxTime
  /\ now' = now + 1
  /\ UNCHANGED <<hubVars, outport, waiter, captorVars, playerVars>>

(***************************************************************************)
(* MidiCaptor.receive, as the hub calls it.                                *)
(***************************************************************************)
\* `if not msg.time: raise MidiHubException`
ReceiveRaises(msg) == msg.time = 0

IsAlive(c) == captor[c].thread = "alive"

(***************************************************************************)
(* MidiHub._handle_message: the passthrough branch.                        *)
(***************************************************************************)
\* The exception the passthrough branch ends with.
PassRaised(tx, open, msg) ==
  IF tx = MONOPHONIC
  THEN IF Cardinality(open) > 1 THEN "AssertionError"
       ELSE IF msg.type = "note_off" /\ msg.note \in open
       THEN "KeyError"   \* self._open_notes.remove(msg): msg is no pitch
       ELSE "none"
  ELSE "none"

\* The passthrough branch without the forced close of the sounding pitch.
PassSent_NoForcedClose(tx, open, msg) ==
  IF tx = MONOPHONIC /\ msg.type = "note_off" /\ msg.note \notin open
  THEN <<>> ELSE <<msg>>

\* What the passthrough branch sends to the output port, in order.
PassSent(tx, open, msg) ==
  IF tx = POLYPHONIC THEN <<msg>>
  ELSE IF Cardinality(open) > 1 THEN <<>>
  ELSE IF msg.type \notin {"note_on", "note_off"} THEN <<msg>>
  ELSE IF msg.type = "note_off" /\ msg.note \in open THEN <<msg>>
  ELSE IF msg.type = "note_on"
  THEN (IF open # {} THEN <<SynthNoteOff(CHOOSE p \in open : TRUE)>> ELSE <<>>)
         \o <<msg>>
  ELSE <<>>

\* The open-notes set kept without popping the sounding pitch on a note-on.
PassOpenNotes_NoPop(tx, open, msg) ==
  IF msg.type = "note_on" THEN open \cup {msg.note}
  ELSE IF tx = POLYPHONIC /\ msg.type = "note_off" THEN open \ {msg.note}
  ELSE open

\* The open-notes set the passthrough branch leaves.
PassOpenNotes(tx, open, msg) ==
  IF tx = POLYPHONIC
  THEN IF msg.type = "note_on" THEN open \cup {msg.note}
       ELSE IF msg.type = "note_off" THEN open \ {msg.note}
       ELSE open
  ELSE IF Cardinality(open) > 1 THEN open
  ELSE IF msg.type = "note_on"
  THEN (IF open # {} THEN open \ {CHOOSE p \in open : TRUE} ELSE open)
         \cup {msg.note}
  ELSE open

\* The captors still alive, in list order.
LiveCaptors == SelectSeq(captureThreads, IsAlive)

HandleMessage(msg) ==
  LET key  == FormatAsString(msg)
      live == LiveCaptors
      recv == live # <<>> /\ ReceiveRaises(msg)
  IN
  \* signal.notify_all()
  /\ waiter' = [w \in Waiters |->
                  IF waiter[w].pc = "waiting" /\ key \in signals
                     /\ FormatAsString(waiter[w].msg) = key
                  THEN [waiter[w] EXCEPT !.pc = "notified"]
                  ELSE waiter[w]]
  \* prune the dead captors, hand a copy to each live one
  /\ captureThreads' = live
  /\ captor' = [c \in CaptorIds |->
                  IF c \in Range(live) /\ ~recv
                  THEN [captor[c] EXCEPT !.queue = Append(@, msg)]
                  ELSE captor[c]]
  /\ IF recv
     THEN /\ hubRaised' = "MidiHubException"
          /\ UNCHANGED <<hubOpenNotes, outport>>
     ELSE IF ~passthrough
     THEN /\ hubRaised' = "none"
          /\ UNCHANGED <<hubOpenNotes, outport>>
     ELSE /\ hubRaised' = PassRaised(texture, hubOpenNotes, msg)
          /\ outport' = outport \o PassSent(texture, hubOpenNotes, msg)
          /\ hubOpenNotes' = PassOpenNotes(texture, hubOpenNotes, msg)
  /\ UNCHANGED <<texture, passthrough, signals, metronome>>

\* The callback handing every message to the handler, program changes too.
TimestampAndHandleMessage_NoFilter(m) ==
  /\ nIn < MaxInput
  /\ nIn' = nIn + 1
  /\ lastIn' = Stamp(m, now)
  /\ HandleMessage(Stamp(m, now))
  /\ UNCHANGED <<now, heap, client, playerVars>>

\* MidiHub._timestamp_and_handle_message: the transport's callback.
TimestampAndHandleMessage(m) ==
  /\ nIn < MaxInput
  /\ nIn' = nIn + 1
  /\ lastIn' = Stamp(m, now)
  /\ IF m.type = "program_change"
     THEN UNCHANGED <<texture, passthrough, hubOpenNotes, signals, metronome,
                      captureThreads, hubRaised, outport, waiter, captor>>
     ELSE HandleMessage(Stamp(m, now))
  /\ UNCHANGED <<now, heap, client, playerVars>>

Dispatch == \E m \in InputMsgs : TimestampAndHandleMessage(m)

\* The setter storing the value without closing the open notes.
SetPassthrough_KeepsOpenNotes(value) ==
  /\ passthrough' = value
  /\ hubRaised' = "none"
  /\ UNCHANGED <<now, texture, hubOpenNotes, outport, signals, captureThreads,
                 lastIn, nIn, metronome, waiter, captorVars, playerVars>>

\* The MidiHub.passthrough setter.
SetPassthrough(value) ==
  /\ IF passthrough = value
     THEN UNCHANGED <<passthrough, hubOpenNotes, outport>>
     ELSE /\ \E order \in Perms(hubOpenNotes) :
               outport' = outport \o [i \in DOMAIN order |-> SynthNoteOff(order[i])]
          /\ hubOpenNotes' = {}
          /\ passthrough' = value
  /\ hubRaised' = "none"
  /\ UNCHANGED <<now, texture, signals, captureThreads, lastIn, nIn,
                 metronome, waiter, captorVars, playerVars>>

TogglePassthrough == \E value \in BOOLEAN : SetPassthrough(value)

(***************************************************************************)
(* MidiCaptor.  captor[c] is the object and its thread:                    *)
(*   thread  "none" (no such captor), "new", "alive", "dead"               *)
(*   pc      where run() is: "top" (line 310), "get" (in the queue's get), *)
(*           "final" (past the loop, line 331), "done"                     *)
(*   seq     the reference of _captured_sequence in `heap`                 *)
(*   open    the open notes the captor holds references to: _open_note of  *)
(*           a monophonic captor, _open_notes of a polyphonic one; each a  *)
(*           note [obj, idx] of a sequence object of the heap              *)
(* `client` is the caller of captured_sequence and stop (one thread: it     *)
(* does nothing else while it is in stop's join), and the feeder of the     *)
(* captor, by receive or (direct) by _capture_message.  It keeps the        *)
(* history the properties speak of: dead0 whether the thread had ended     *)
(* when the current call began, finals the calls without end_time answered *)
(* after the thread ended, final the value the first of them returned,     *)
(* modified whether such a returned copy was changed since.                *)
(***************************************************************************)
WakeMsg == Message("WAKE", 0, 0, 0, 0)    \* MidiCaptor._WAKE_MESSAGE

NoCaptor ==
  [thread |-> "none", pc |-> "done", exc |-> "none", mono |-> TRUE,
   queue |-> <<>>, seq |-> 0, start_time |-> 0, stop_time |-> NoTime,
   stop_signal |-> NoMsg, deadline |-> NoTime, msg |-> NoMsg, open |-> {}]

\* MidiCaptor.__init__ (and the subclasses'), with its sequence at heap
\* reference `ref`.
NewCaptor(mono, ref, start_time, stop_time, stop_signal) ==
  [NoCaptor EXCEPT !.thread = "new", !.pc = "top", !.mono = mono, !.seq = ref,
                   !.start_time = start_time, !.stop_time = stop_time,
                   !.stop_signal = stop_signal]

IdleClient ==
  [pc |-> "idle", arg |-> NoTime, tmp |-> 0, ret |-> 0, exc |-> "none",
   calls |-> 0, dead0 |-> FALSE, finals |-> 0, modified |-> FALSE,
   final |-> NoteSequence(0, 0, <<>>), stop |-> "idle",
   stream |-> <<>>, fed |-> 0, direct |-> FALSE,
   \* the call of MidiHub.start_capture / capture_sequence in progress
   hub |-> [pc |-> "idle", via |-> "none", qpm |-> 0, start_time |-> 0,
            stop_time |-> NoTime, stop_signal |-> NoMsg, captor |-> 0,
            ret |-> 0, exc |-> "none"]]

InitCaptorsNone ==
  /\ captor = [c \in CaptorIds |-> NoCaptor]
  /\ heap = <<>>
  /\ client = IdleClient

\* The message streams fed to a captor; the first is
\* [note_on(60,t=0), note_on(64,t=1), note_off(60,t=2), note_off(64,t=3)].
ExampleStream ==
  << Message("note_on", 60, 64, 0, 0), Message("note_on", 64, 64, 0, 1),
     Message("note_off", 60, 64, 0, 2), Message("note_off", 64, 64, 0, 3) >>

CaptureStreams ==
  { ExampleStream,
    << Message("note_on", 60, 64, 0, 1), Message("note_on", 60, 64, 0, 1),
       Message("note_on", 64, 0, 0, 2), Message("note_on", 64, 64, 0, 3) >>,
    << Message("note_on", 60, 64, 0, 2), Message("note_off", 60, 64, 0, 3),
       Message("control_change", 7, 64, 0, 3), Message("note_on", 64, 64, 0, 3) >> }

\* `msg.type == 'note_off' or (msg.type == 'note_on' and msg.velocity == 0)`
IsNoteOff(msg) ==
  msg.type = "note_off" \/ (msg.type = "note_on" /\ msg.velocity = 0)

OpenRef(h, obj, pitch) == [pitch |-> pitch, obj |-> obj, idx |-> Len(h[obj].notes) + 1]

\* note.end_time = t, for every note referred to.
RECURSIVE SetEndTimes(_, _, _)
SetEndTimes(h, refs, t) ==
  IF refs = {} THEN h
  ELSE LET r == CHOOSE r \in refs : TRUE IN
       SetEndTimes([h EXCEPT ![r.obj].notes[r.idx].end_time = t], refs \ {r}, t)

\* self._captured_sequence.notes.add(), then the three assignments.
AddNote(h, obj, msg) ==
  [h EXCEPT ![obj].notes = Append(@, Note(msg.note, msg.velocity, msg.time, 0))]

\* MonophonicMidiCaptor._capture_message: the heap and the open note it leaves.
MonoCapture(h, cp, msg) ==
  IF IsNoteOff(msg)
  THEN IF cp.open = {} \/ \A r \in cp.open : r.pitch # msg.note
       THEN [heap |-> h, open |-> cp.open]
       ELSE [heap |-> SetEndTimes(h, cp.open, msg.time), open |-> {}]
  ELSE IF msg.type = "note_on"
  THEN IF \E r \in cp.open : r.pitch = msg.note
       THEN [heap |-> h, open |-> cp.open]
       ELSE [heap |-> AddNote(SetEndTimes(h, cp.open, msg.time), cp.seq, msg),
             open |-> {OpenRef(h, cp.seq, msg.note)}]
  ELSE [heap |-> h, open |-> cp.open]

\* PolyphonicMidiCaptor._capture_message
PolyCapture(h, cp, msg) ==
  LET same == {r \in cp.open : r.pitch = msg.note} IN
  IF IsNoteOff(msg)
  THEN IF same = {}
       THEN [heap |-> h, open |-> cp.open]
       ELSE [heap |-> SetEndTimes(h, same, msg.time), open |-> cp.open \ same]
  ELSE IF msg.type = "note_on"
  THEN IF same # {}
       THEN [heap |-> h, open |-> cp.open]
       ELSE [heap |-> AddNote(h, cp.seq, msg),
             open |-> cp.open \cup {OpenRef(h, cp.seq, msg.note)}]
  ELSE [heap |-> h, open |-> cp.open]

CaptureResult(h, cp, msg) ==
  IF cp.mono THEN MonoCapture(h, cp, msg) ELSE PolyCapture(h, cp, msg)

\* _capture_message(msg), called on the captor under its lock.
CaptureMessage(c, msg) ==
  LET r == CaptureResult(heap, captor[c], msg) IN
  /\ heap' = r.heap
  /\ captor' = [captor EXCEPT ![c].open = r.open]

\* The client hands the next message of its stream to _capture_message.
DirectCapture(c) ==
  /\ IsAlive(c)
  /\ client.direct
  /\ client.fed < Len(client.stream)
  /\ CaptureMessage(c, client.stream[client.fed + 1])
  /\ client' = [client EXCEPT !.fed = @ + 1]
  /\ UNCHANGED <<now, hubVars, outport, waiter, playerVars>>

\* MidiCaptor.receive(msg): the client hands over the next message of its
\* stream.
Receive(c) ==
  LET msg == client.stream[client.fed + 1] IN
  /\ captor[c].thread # "none"
  /\ ~client.direct
  /\ client.fed < Len(client.stream)
  /\ IF ReceiveRaises(msg)
     THEN /\ client' = [client EXCEPT !.fed = @ + 1, !.exc = "MidiHubException"]
          /\ UNCHANGED captor
     ELSE /\ client' = [client EXCEPT !.fed = @ + 1, !.exc = "none"]
          /\ captor' = [captor EXCEPT ![c].queue = Append(@, msg)]
  /\ UNCHANGED <<now, hubVars, outport, waiter, heap, playerVars>>

\* Thread.start()
CaptorStart(c) ==
  /\ captor[c].thread = "new"
  /\ captor' = [captor EXCEPT ![c].thread = "alive"]
  /\ UNCHANGED <<now, hubVars, outport, waiter, heap, client, playerVars>>

\* run(), lines 310-315: the timeout of the coming get, or the break.
CaptorTop(c) ==
  /\ IsAlive(c)
  /\ captor[c].pc = "top"
  /\ IF captor[c].stop_time # NoTime /\ captor[c].stop_time - now <= 0
     THEN captor' = [captor EXCEPT ![c].pc = "final"]
     ELSE captor' = [captor EXCEPT ![c].pc = "get",
                                   ![c].deadline = captor[c].stop_time]
  /\ UNCHANGED <<now, hubVars, outport, waiter, heap, client, playerVars>>

\* run(), lines 316-329.  Line 327 reads self._stop_message, which no
\* statement assigns (__init__ sets _stop_signal): the comparison raises
\* AttributeError for every message of the window, before line 329 hands it
\* to _capture_message, and the thread ends without reaching line 331.
CaptorGet(c) ==
  /\ IsAlive(c)
  /\ captor[c].pc = "get"
  /\ IF captor[c].queue # <<>>
     THEN LET msg == Head(captor[c].queue) IN
          IF msg = WakeMsg \/ msg.time <= captor[c].start_time
          THEN captor' = [captor EXCEPT ![c].queue = Tail(@), ![c].pc = "top"]
          ELSE captor' = [captor EXCEPT ![c].queue = Tail(@), ![c].msg = msg,
                                        ![c].thread = "dead", ![c].pc = "done",
                                        ![c].exc = "AttributeError"]
     ELSE /\ captor[c].deadline # NoTime
          /\ now >= captor[c].deadline     \* Queue.Empty
          /\ captor' = [captor EXCEPT ![c].pc = "top"]
  /\ UNCHANGED <<now, hubVars, outport, waiter, heap, client, playerVars>>

\* captured_sequence, lines 387-393, on the notes of the copy.
Truncated(notes, end_time) ==
  LET bad  == {i \in DOMAIN notes : notes[i].start_time > notes[i].end_time}
      stop == IF bad = {} THEN Len(notes) + 1
              ELSE CHOOSE i \in bad : \A j \in bad : i <= j
  IN [i \in 1..(stop - 1) |->
        IF notes[i].end_time = 0 \/ notes[i].end_time > end_time
        THEN [notes[i] EXCEPT !.end_time = end_time]
        ELSE notes[i]]

\* The copy as captured_sequence always clips it, alive or not.
Returned_AlwaysClipped(copy, alive, end_time) ==
  NoteSequence(copy.qpm, end_time, Truncated(copy.notes, end_time))

\* captured_sequence, lines 383-398: what becomes of the copy.
Returned(copy, alive, end_time) ==
  IF alive
  THEN NoteSequence(copy.qpm, end_time, Truncated(copy.notes, end_time))
  ELSE copy

\* captured_sequence raising only for a missing end_time.
CapturedSequenceRaises_OnlyWhenOmitted(alive, end_time) ==
  alive /\ end_time = NoTime

\* The exception captured_sequence raises.
CapturedSequenceRaises(alive, end_time) ==
  (alive /\ end_time = NoTime) \/ (~alive /\ end_time # NoTime)

\* music_pb2.NoteSequence(self._captured_sequence): a new object.
CopyRef(h, obj) == Len(h) + 1

WithCopy(h, obj) ==
  IF CopyRef(h, obj) > Len(h) THEN Append(h, h[obj]) ELSE h

\* The objects some reference still leads to, and the heap once the others
\* are collected.
Live(cap, cl) ==
  UNION {{cap[c].seq} \cup {r.obj : r \in cap[c].open} : c \in CaptorIds}
    \cup {cl.ret, cl.tmp}

Collected(h, live) ==
  [r \in DOMAIN h |-> IF r \in live THEN h[r] ELSE NoteSequence(0, 0, <<>>)]

\* run(), lines 331-333: the stored sequence becomes captured_sequence(end_time)
\* (the thread is still alive), and run() ends.
CaptorFinal(c) ==
  LET end_time == IF captor[c].stop_time # NoTime THEN captor[c].stop_time
                  ELSE captor[c].msg.time
      ref      == CopyRef(heap, captor[c].seq)
  IN
  /\ IsAlive(c)
  /\ captor[c].pc = "final"
  /\ heap' = [WithCopy(heap, captor[c].seq) EXCEPT
                ![ref] = Returned(heap[captor[c].seq], TRUE, end_time)]
  /\ captor' = [captor EXCEPT ![c].seq = ref, ![c].thread = "dead",
                              ![c].pc = "done"]
  /\ UNCHANGED <<now, hubVars, outport, waiter, client, playerVars>>

\* captured_sequence(end_time), lines 379-381: the copy, under the lock.
CapturedSequenceCopy(c, end_time) ==
  /\ captor[c].thread # "none"
  /\ client.pc = "idle"
  /\ client.stop # "joining"
  /\ client.calls < MaxCalls
  /\ client' = [client EXCEPT !.pc = "copied", !.arg = end_time, !.ret = 0,
                              !.tmp = CopyRef(heap, captor[c].seq),
                              !.dead0 = (captor[c].thread = "dead")]
  /\ heap' = Collected(WithCopy(heap, captor[c].seq), Live(captor, client'))
  /\ UNCHANGED <<now, hubVars, outport, waiter, captor, playerVars>>

\* captured_sequence(end_time), lines 383-398.
CapturedSequenceReturn(c) ==
  /\ client.pc = "copied"
  /\ IF CapturedSequenceRaises(IsAlive(c), client.arg)
     THEN /\ client' = [client EXCEPT !.pc = "idle", !.calls = @ + 1, !.ret = 0,
                                      !.tmp = 0, !.exc = "MidiHubException"]
          /\ heap' = Collected(heap, Live(captor, client'))
     ELSE LET result == Returned(heap[client.tmp], IsAlive(c), client.arg) IN
          /\ heap' = [heap EXCEPT ![client.tmp] = result]
          /\ client' = [client EXCEPT
                          !.pc = "idle", !.calls = @ + 1, !.ret = client.tmp,
                          !.tmp = 0, !.exc = "none",
                          !.finals = IF client.dead0 /\ client.arg = NoTime
                                     THEN @ + 1 ELSE @,
                          !.final = IF client.finals = 0 /\ client.dead0
                                       /\ client.arg = NoTime
                                    THEN result ELSE @]
  /\ UNCHANGED <<now, hubVars, outport, waiter, captor, playerVars>>

CapturedSequence(c) ==
  \/ \E end_time \in {NoTime, now} : CapturedSequenceCopy(c, end_time)
  \/ CapturedSequenceReturn(c)

\* The caller changes the sequence it was returned.
ModifyReturned ==
  /\ client.pc = "idle"
  /\ client.stop # "joining"
  /\ client.ret # 0
  /\ heap[client.ret].notes # <<>>
  /\ heap' = [heap EXCEPT ![client.ret].notes = <<>>]
  /\ client' = [client EXCEPT !.modified = @ \/ (client.dead0 /\ client.arg = NoTime)]
  /\ UNCHANGED <<now, hubVars, outport, waiter, captor, playerVars>>

\* MidiCaptor.stop(stop_time), lines 348-354.  `self.is_alive` is the bound
\* method, not a call: `not self.is_alive` is False and nothing is raised.
CaptorStopCall(c, stop_time) ==
  /\ captor[c].thread # "none"
  /\ client.pc = "idle"
  /\ client.stop = "idle"
  /\ captor' = [captor EXCEPT
                  ![c].stop_time = IF stop_time = NoTime THEN now ELSE stop_time,
                  ![c].queue = Append(@, WakeMsg)]
  /\ client' = [client EXCEPT !.stop = "joining"]
  /\ UNCHANGED <<now, hubVars, outport, waiter, heap, playerVars>>

\* MidiCaptor.stop, line 355: join() of a thread never started raises
\* RuntimeError; otherwise it returns once the thread has ended.
CaptorStopJoin(c) ==
  /\ client.stop = "joining"
  /\ IF captor[c].thread = "new"
     THEN client' = [client EXCEPT !.stop = "raised", !.exc = "RuntimeError"]
     ELSE /\ captor[c].thread = "dead"
          /\ client' = [client EXCEPT !.stop = "returned"]
  /\ UNCHANGED <<now, hubVars, outport, waiter, captor, heap, playerVars>>

CaptorStop(c) ==
  \/ \E stop_time \in {NoTime, 1} : CaptorStopCall(c, stop_time)
  \/ CaptorStopJoin(c)

CaptorTick ==
  /\ now < MaxCapTime
  /\ now' = now + 1
  /\ UNCHANGED <<hubVars, outport, waiter, captorVars, playerVars>>

(***************************************************************************)
(* Metronome, and MidiHub.start_metronome / stop_metronome.  `metronome`   *)
(* is                                                                      *)
(*   attr   the hub's attribute _metronome: "unset" (the attribute does    *)
(*          not exist), 0 (None) or the id of a Metronome                  *)
(*   obj    id -> the Metronome object and its thread: thread "none" (no   *)
(*          such object), "new", "alive", "dead"; pc where run() is; at    *)
(*          the time read at line 73 and target the next_tick_time         *)
(*          computed from it; stopper the caller of Metronome.stop()       *)
(*   call   the last start_metronome / stop_metronome call and the         *)
(*          exception it ended with, n the number of calls so far          *)
(* Times are whole seconds and the qpm values divide 60, so that the       *)
(* period is a whole number of seconds.                                    *)
(***************************************************************************)
MetroIds == {1, 2}

NoMetronomeObj ==
  [thread |-> "none", pc |-> "top", start_time |-> 0, qpm |-> 60,
   stop |-> FALSE, at |-> 0, target |-> 0, stopper |-> "idle"]

\* Metronome.__init__
NewMetronome(start_time, qpm) ==
  [NoMetronomeObj EXCEPT !.thread = "new", !.start_time = start_time,
                         !.qpm = qpm]

\* MidiHub.__init__ assigns no _metronome attribute.
NoMetronome ==
  [attr |-> "unset",
   obj  |-> [m \in MetroIds |-> NoMetronomeObj],
   call |-> [op |-> "none", start_time |-> 0, qpm |-> 0, exc |-> "none", n |-> 0]]

\* period = 60. / self._qpm
Period(qpm) == 60 \div qpm

\* The next tick counted from the time of the computation alone.
NextTickTime_FromNow(t, start_time, period) == t + period

\* Line 74: next_tick_time = now + period - ((now - self._start_time) % period)
NextTickTime(t, start_time, period) ==
  t + period - ((t - start_time) % period)

MetroAlive(m) == metronome.obj[m].thread = "alive"

\* Thread.start() of a Metronome.
MetroStart(m) ==
  /\ metronome.obj[m].thread = "new"
  /\ metronome' = [metronome EXCEPT !.obj[m].thread = "alive"]
  /\ UNCHANGED <<now, texture, passthrough, hubOpenNotes, signals,
                 captureThreads, lastIn, nIn, hubRaised, outport, waiter,
                 captorVars, playerVars>>

\* run(), lines 72-74: the loop test, the time read and the target.
MetroTop(m) ==
  /\ MetroAlive(m)
  /\ metronome.obj[m].pc = "top"
  /\ IF metronome.obj[m].stop
     THEN metronome' = [metronome EXCEPT !.obj[m].thread = "dead"]
     ELSE metronome' = [metronome EXCEPT
            !.obj[m].at = now,
            !.obj[m].target = NextTickTime(now, metronome.obj[m].start_time,
                                           Period(metronome.obj[m].qpm)),
            !.obj[m].pc = "delta"]
  /\ UNCHANGED <<now, texture, passthrough, hubOpenNotes, signals,
                 captureThreads, lastIn, nIn, hubRaised, outport, waiter,
                 captorVars, playerVars>>

\* run(), lines 75-77: the second time read, and the sleep if the target is
\* still ahead.
MetroDelta(m) ==
  /\ MetroAlive(m)
  /\ metronome.obj[m].pc = "delta"
  /\ metronome' = [metronome EXCEPT !.obj[m].pc =
                     IF metronome.obj[m].target - now > 0 THEN "sleep" ELSE "spin"]
  /\ UNCHANGED <<now, texture, passthrough, hubOpenNotes, signals,
                 captureThreads, lastIn, nIn, hubRaised, outport, waiter,
                 captorVars, playerVars>>

\* run(), line 77: time.sleep(delta + sleep_offset) returns, a little early
\* (within the second before the target) or late; sleep_offset (lines 83-87)
\* only tunes by how much.
MetroWake(m) ==
  /\ MetroAlive(m)
  /\ metronome.obj[m].pc = "sleep"
  /\ now >= metronome.obj[m].target - 1
  /\ metronome' = [metronome EXCEPT !.obj[m].pc = "spin"]
  /\ UNCHANGED <<now, texture, passthrough, hubOpenNotes, signals,
                 captureThreads, lastIn, nIn, hubRaised, outport, waiter,
                 captorVars, playerVars>>

\* run(), lines 89-98: the spin until the target, then the note-on.
MetroTickOn(m) ==
  /\ MetroAlive(m)
  /\ metronome.obj[m].pc = "spin"
  /\ now >= metronome.obj[m].target
  /\ outport' = Append(outport, Message("note_on", 95, 64, 0, 0))
  /\ metronome' = [metronome EXCEPT !.obj[m].pc = "on"]
  /\ UNCHANGED <<now, texture, passthrough, hubOpenNotes, signals,
                 captureThreads, lastIn, nIn, hubRaised, waiter,
                 captorVars, playerVars>>

\* run(), lines 99-105: after the tick's duration, the note-off.
MetroTickOff(m) ==
  /\ MetroAlive(m)
  /\ metronome.obj[m].pc = "on"
  /\ outport' = Append(outport, Message("note_off", 95, 64, 0, 0))
  /\ metronome' = [metronome EXCEPT !.obj[m].pc = "top"]
  /\ UNCHANGED <<now, texture, passthrough, hubOpenNotes, signals,
                 captureThreads, lastIn, nIn, hubRaised, waiter,
                 captorVars, playerVars>>

\* Metronome.stop(): the flag, then join(), which raises RuntimeError for a
\* thread never started and otherwise returns once the thread has ended.
MetroStopCall(m) ==
  /\ metronome.obj[m].thread # "none"
  /\ metronome.obj[m].stopper = "idle"
  /\ metronome' = [metronome EXCEPT
                     !.obj[m].stop = TRUE,
                     !.obj[m].stopper =
                        IF metronome.obj[m].thread = "new" THEN "raised"
                        ELSE "joining"]
  /\ UNCHANGED <<now, texture, passthrough, hubOpenNotes, signals,
                 captureThreads, lastIn, nIn, hubRaised, outport, waiter,
                 captorVars, playerVars>>

MetroStopJoin(m) ==
  /\ metronome.obj[m].stopper = "joining"
  /\ metronome.obj[m].thread = "dead"
  /\ metronome' = [metronome EXCEPT !.obj[m].stopper = "returned"]
  /\ UNCHANGED <<now, texture, passthrough, hubOpenNotes, signals,
                 captureThreads, lastIn, nIn, hubRaised, outport, waiter,
                 captorVars, playerVars>>

\* The Metronome start_metronome constructs: a thread that nothing starts.
HubMetronome(start_time, qpm) == NewMetronome(start_time, qpm)

\* MidiHub.stop_metronome as start_metronome and its callers run it: what
\* becomes of `metronome`.  Reading self._metronome raises AttributeError
\* while the attribute does not exist; the stop() of a Metronome that was
\* never started raises RuntimeError out of join(), before line 682.
AfterStopMetronome(mt) ==
  IF mt.attr = "unset" THEN [mt EXCEPT !.call.exc = "AttributeError"]
  ELSE IF mt.attr = 0 THEN [mt EXCEPT !.call.exc = "none"]
  ELSE [mt EXCEPT !.obj[mt.attr].stop = TRUE,
                  !.obj[mt.attr].stopper = "raised",
                  !.call.exc = "RuntimeError"]

\* MidiHub.stop_metronome()
StopMetronome ==
  /\ metronome.call.n < MaxMetroCalls
  /\ metronome' = AfterStopMetronome(
        [metronome EXCEPT !.call = [op |-> "stop", start_time |-> 0, qpm |-> 0,
                                    exc |-> "none", n |-> @.n + 1]])
  /\ UNCHANGED <<now, texture, passthrough, hubOpenNotes, signals,
                 captureThreads, lastIn, nIn, hubRaised, outport, waiter,
                 captorVars, playerVars>>

\* MidiHub.start_metronome(start_time, qpm)
StartMetronome(start_time, qpm) ==
  LET called  == [metronome EXCEPT !.call =
                     [op |-> "start", start_time |-> start_time, qpm |-> qpm,
                      exc |-> "none", n |-> @.n + 1]]
      \* `if self._metronome is not None: self.stop_metronome()`
      stopped == AfterStopMetronome(called)
      free    == CHOOSE m \in MetroIds : metronome.obj[m].thread = "none"
  IN
  /\ metronome.call.n < MaxMetroCalls
  /\ \E m \in MetroIds : metronome.obj[m].thread = "none"
  /\ metronome' =
       IF stopped.call.exc # "none" THEN stopped
       ELSE [stopped EXCEPT !.attr = free,
                            !.obj[free] = HubMetronome(start_time, qpm)]
  /\ UNCHANGED <<now, texture, passthrough, hubOpenNotes, signals,
                 captureThreads, lastIn, nIn, hubRaised, outport, waiter,
                 captorVars, playerVars>>

MetroTick ==
  /\ now < MaxMetroTime
  /\ now' = now + 1
  /\ UNCHANGED <<hubVars, outport, waiter, captorVars, playerVars>>

(***************************************************************************)
(* MidiHub.wait_for_signal.  The method is @serialized: the caller first   *)
(* has to get the hub's lock ("called"), then registers the Condition and  *)
(* waits on it, which releases the lock ("waiting"); notify_all moves it   *)
(* to "notified", and it returns once it has the lock again.               *)
(***************************************************************************)
IdleWaiter == [pc |-> "idle", msg |-> NoMsg]

CallWaitForSignal(w, m) ==
  /\ waiter[w].pc \in {"idle", "returned"}
  /\ waiter' = [waiter EXCEPT ![w] = [pc |-> "called", msg |-> m]]
  /\ UNCHANGED <<now, hubVars, outport, captorVars, playerVars>>

EnterWait(w) ==
  /\ waiter[w].pc = "called"
  /\ signals' = signals \cup {FormatAsString(waiter[w].msg)}
  /\ waiter' = [waiter EXCEPT ![w].pc = "waiting"]
  /\ UNCHANGED <<now, texture, passthrough, hubOpenNotes, captureThreads,
                 lastIn, nIn, hubRaised, metronome, outport, captorVars,
                 playerVars>>

ReturnFromWait(w) ==
  /\ waiter[w].pc = "notified"
  /\ waiter' = [waiter EXCEPT ![w].pc = "returned"]
  /\ UNCHANGED <<now, hubVars, outport, captorVars, playerVars>>

WaitForSignal ==
  \E w \in Waiters :
     \/ \E m \in SignalMsgs : CallWaitForSignal(w, m)
     \/ EnterWait(w)
     \/ ReturnFromWait(w)

InitPlayerNone ==
  /\ player = 0
  /\ plClient = 0

\* MidiHub.__init__
InitHub ==
  /\ texture \in {MONOPHONIC, POLYPHONIC}
  /\ passthrough \in BOOLEAN
  /\ hubOpenNotes = {}
  /\ signals = {}
  /\ captureThreads = <<>>
  /\ lastIn = NoMsg
  /\ nIn = 0
  /\ hubRaised = "none"
  /\ metronome = NoMetronome
  /\ waiter = [w \in Waiters |-> IdleWaiter]

(***************************************************************************)
(* SpecHub: a hub, its transport and the passthrough setter.               *)
(***************************************************************************)
InitHubOnly ==
  /\ now = 1
  /\ outport = <<>>
  /\ InitHub
  /\ InitCaptorsNone
  /\ InitPlayerNone

NextHub == Tick \/ Dispatch \/ TogglePassthrough

SpecHub == InitHubOnly /\ [][NextHub]_vars

(***************************************************************************)
(* SpecSignal: a hub, its transport and threads in wait_for_signal.        *)
(***************************************************************************)
NextSignal == Dispatch \/ WaitForSignal

SpecSignal == InitHubOnly /\ [][NextSignal]_vars

(***************************************************************************)
(* MidiPlayer.  `player` is the object and its playback thread:            *)
(*   state   "ok", or the exception __init__ ended with                    *)
(*   thread  "new" (never started), "started", "dead"                      *)
(*   pc      where run() is: "init" (started, lock not yet taken),         *)
(*           "loop" (holds the lock, at `while self._message_queue`),      *)
(*           "twait" / "iwait" (in _update_cv.wait with / without timeout; *)
(*           the lock is released), "done" (run ended)                     *)
(*   exc     the exception that ended run()                                *)
(***************************************************************************)
\* The note lists of the sequences handed to a player; an end_time of 0 is
\* unset (the protobuf default).
PlayerSeqs ==
  { <<>>,
    <<Note(60, 64, 2, 3)>>,
    <<Note(60, 64, 1, 0)>>,
    <<Note(64, 64, 2, 0)>>,
    <<Note(60, 64, 1, 0), Note(64, 64, 2, 0)>>,
    <<Note(64, 64, 3, 0), Note(60, 64, 2, 0)>> }

PitchesOf(notes) == {notes[i].pitch : i \in DOMAIN notes}

\* sorted(list, key=lambda x: x.time): stable.
RECURSIVE InsertByTime(_, _)
InsertByTime(m, sorted) ==
  IF sorted = <<>> THEN <<m>>
  ELSE IF sorted[Len(sorted)].time <= m.time THEN Append(sorted, m)
  ELSE Append(InsertByTime(m, SubSeq(sorted, 1, Len(sorted) - 1)),
              sorted[Len(sorted)])

RECURSIVE SortedByTime(_)
SortedByTime(list) ==
  IF list = <<>> THEN <<>>
  ELSE InsertByTime(list[Len(list)], SortedByTime(SubSeq(list, 1, Len(list) - 1)))

\* Lines 184-190: the messages one note adds to new_message_list.
NoteMessages(note, playhead) ==
  (IF note.start_time >= playhead
   THEN <<Message("note_on", note.pitch, note.velocity, 0, note.start_time)>>
   ELSE <<>>)
  \o (IF note.end_time >= playhead
      THEN <<Message("note_off", note.pitch, 64, 0, note.end_time)>>
      ELSE <<>>)

RECURSIVE NewMessageList(_, _)
NewMessageList(notes, playhead) ==
  IF notes = <<>> THEN <<>>
  ELSE NewMessageList(SubSeq(notes, 1, Len(notes) - 1), playhead)
         \o NoteMessages(notes[Len(notes)], playhead)

\* Line 191 reads self._playhead for every note with end_time >= playhead.
\* No statement of the class assigns that attribute: the read raises
\* AttributeError, before the queue is replaced.
ReadsPlayheadAttr(notes, playhead) ==
  \E i \in DOMAIN notes : notes[i].end_time >= playhead

\* The new queue left in the order of the sequence's notes.
UpdatedQueue_Unsorted(notes, playhead) == NewMessageList(notes, playhead)

\* Lines 182-201: notes_to_close gets a pitch only at line 193, which is only
\* reached past line 191; when update_sequence goes on it is empty, and the
\* loop over the old queue carries nothing over.
UpdatedQueue(notes, playhead) == SortedByTime(NewMessageList(notes, playhead))

\* The playback thread holds the player's lock.
RunHoldsLock == player.thread = "started" /\ player.pc = "loop"

\* Condition.notify(): wakes the thread if it is waiting.
Notified(pl) ==
  IF pl.thread = "started" /\ pl.pc \in {"twait", "iwait"}
  THEN [pl EXCEPT !.notified = TRUE] ELSE pl

\* MidiPlayer.update_sequence, on a constructed player.
UpdateSequence(notes) ==
  /\ player.state = "ok"
  /\ ~RunHoldsLock
  /\ plClient.updates < MaxUpdates
  /\ IF ~player.allow
     THEN /\ plClient' = [plClient EXCEPT !.updates = @ + 1,
                                          !.exc = "MidiHubException"]
          /\ UNCHANGED player
     ELSE IF ReadsPlayheadAttr(notes, now)
     THEN /\ plClient' = [plClient EXCEPT !.updates = @ + 1, !.handed = notes,
                                          !.exc = "AttributeError"]
          /\ UNCHANGED player
     ELSE /\ plClient' = [plClient EXCEPT !.updates = @ + 1, !.handed = notes,
                                          !.exc = "none"]
          /\ player' = Notified([player EXCEPT !.queue = UpdatedQueue(notes, now)])
  /\ UNCHANGED <<now, hubVars, outport, waiter, captorVars>>

Update == \E notes \in PlayerSeqs : UpdateSequence(notes)

\* Thread.start(), as MidiHub.start_playback calls it.
PlayerStart ==
  /\ player.state = "ok"
  /\ player.thread = "new"
  /\ player' = [player EXCEPT !.thread = "started", !.pc = "init"]
  /\ UNCHANGED <<now, hubVars, outport, waiter, captorVars, plClient>>

\* Lines 212-213: what is left of the queue once the past-dated head messages
\* are popped.
RECURSIVE DropPast(_, _)
DropPast(queue, t) ==
  IF queue # <<>> /\ queue[1].time < t THEN DropPast(Tail(queue), t) ELSE queue

\* run() takes the lock and discards the past-dated messages; reading
\* self._message_queue[0] of an empty deque raises IndexError.
RunInit ==
  /\ player.thread = "started"
  /\ player.pc = "init"
  /\ IF DropPast(player.queue, now) = <<>>
     THEN player' = [player EXCEPT !.queue = <<>>, !.thread = "dead",
                                   !.pc = "done", !.exc = "IndexError"]
     ELSE player' = [player EXCEPT !.queue = DropPast(player.queue, now),
                                   !.pc = "loop"]
  /\ UNCHANGED <<now, hubVars, outport, waiter, captorVars, plClient>>

\* Lines 215-230: one pass of the loops, with the lock held.
RunLoop ==
  /\ player.thread = "started"
  /\ player.pc = "loop"
  /\ IF player.queue # <<>>
     THEN LET msg == player.queue[1] IN
          IF now < msg.time
          THEN /\ player' = [player EXCEPT !.pc = "twait", !.deadline = msg.time,
                                           !.notified = FALSE]
               /\ UNCHANGED outport
          ELSE IF msg.type = "note_off" /\ msg.note \notin player.open
          THEN \* self._open_notes.remove(msg.note): KeyError
               /\ player' = [player EXCEPT !.queue = Tail(@), !.thread = "dead",
                                           !.pc = "done", !.exc = "KeyError"]
               /\ UNCHANGED outport
          ELSE /\ player' = [player EXCEPT
                               !.queue = Tail(@),
                               !.open = IF msg.type = "note_on"
                                        THEN @ \cup {msg.note}
                                        ELSE @ \ {msg.note}]
               /\ outport' = Append(outport, msg)
     ELSE IF player.allow
     THEN /\ player' = [player EXCEPT !.pc = "iwait", !.notified = FALSE]
          /\ UNCHANGED outport
     ELSE \* `while True` goes round with the lock held: run() has no return
          UNCHANGED <<player, outport>>
  /\ UNCHANGED <<now, hubVars, waiter, captorVars, plClient>>

\* _update_cv.wait returns: notified, or the timeout has passed.
RunWake ==
  /\ player.thread = "started"
  /\ player.pc \in {"twait", "iwait"}
  /\ player.notified \/ (player.pc = "twait" /\ now >= player.deadline)
  /\ player' = [player EXCEPT !.pc = "loop", !.notified = FALSE]
  /\ UNCHANGED <<now, hubVars, outport, waiter, captorVars, plClient>>

\* MidiPlayer.stop, lines 237-245: under the lock.
StopEnter ==
  /\ player.state = "ok"
  /\ plClient.stop = "idle"
  /\ ~RunHoldsLock
  /\ \E order \in Perms(player.open) :
        player' = Notified([player EXCEPT
                     !.allow = FALSE,
                     !.queue = [i \in DOMAIN order |->
                                  Message("note_off", order[i], 64, 0, now)]])
  /\ plClient' = [plClient EXCEPT !.stop = "joining"]
  /\ UNCHANGED <<now, hubVars, outport, waiter, captorVars>>

\* Thread.join() returns once the thread has ended.
ThreadExited_NoJoin == TRUE

ThreadExited == player.thread = "dead"

\* MidiPlayer.stop, line 246: join() of a thread never started raises
\* RuntimeError; otherwise it blocks until the thread has ended.
StopJoin ==
  /\ plClient.stop = "joining"
  /\ IF player.thread = "new"
     THEN plClient' = [plClient EXCEPT !.stop = "raised", !.exc = "RuntimeError"]
     ELSE /\ ThreadExited
          /\ plClient' = [plClient EXCEPT !.stop = "returned"]
  /\ UNCHANGED <<now, hubVars, outport, waiter, captorVars, player>>

PlayerTick ==
  /\ now < MaxPlayTime
  /\ now' = now + 1
  /\ UNCHANGED <<hubVars, outport, waiter, captorVars, playerVars>>

\* MidiPlayer.__init__(outport, sequence, allow_updates) at time `now`.
NewPlayer(tempos, notes, allow_updates) ==
  [state    |-> IF tempos # 1 THEN "MidiHubException"
                ELSE IF ReadsPlayheadAttr(notes, now) THEN "AttributeError"
                ELSE "ok",
   thread   |-> "new",
   pc       |-> "init",
   queue    |-> IF tempos = 1 /\ ~ReadsPlayheadAttr(notes, now)
                THEN UpdatedQueue(notes, now) ELSE <<>>,
   open     |-> {},
   allow    |-> allow_updates,
   notified |-> FALSE,
   deadline |-> 0,
   exc      |-> "none"]

InitPlayer ==
  /\ now = 1
  /\ outport = <<>>
  /\ \E tempos \in {1, 2}, notes \in PlayerSeqs, allow_updates \in BOOLEAN :
        /\ player = NewPlayer(tempos, notes, allow_updates)
        /\ plClient = [stop |-> "idle", updates |-> 0, handed |-> notes,
                       exc |-> "none"]
  /\ InitHub
  /\ texture = POLYPHONIC
  /\ ~passthrough
  /\ InitCaptorsNone

NextPlayer ==
  \/ PlayerTick
  \/ PlayerStart
  \/ RunInit
  \/ RunLoop
  \/ RunWake
  \/ Update
  \/ StopEnter
  \/ StopJoin

SpecPlayer == InitPlayer /\ [][NextPlayer]_vars

\* The player under a fair scheduler: the playback thread takes every step
\* it is able to take, a condition wait returns once it can, and the clock
\* goes on.
FairPlayer ==
  /\ WF_vars(RunInit)
  /\ WF_vars(RunLoop)
  /\ WF_vars(RunWake)
  /\ WF_vars(PlayerTick)
  /\ WF_vars(StopJoin)

SpecPlayerLive == InitPlayer /\ [][NextPlayer]_vars /\ FairPlayer

(***************************************************************************)
(* SpecCaptor: one captor (captor 1), the thread feeding it and calling    *)
(* captured_sequence and stop.                                             *)
(***************************************************************************)
InitCaptor ==
  /\ now = 1
  /\ outport = <<>>
  /\ InitHub
  /\ texture = POLYPHONIC
  /\ ~passthrough
  /\ InitPlayerNone
  /\ heap = <<NoteSequence(120, 0, <<>>)>>
  /\ \E mono \in BOOLEAN, start_time \in {-1, 0}, stop_time \in {NoTime, 2} :
        captor = [c \in CaptorIds |->
                    IF c = 1 THEN NewCaptor(mono, 1, start_time, stop_time, NoMsg)
                    ELSE NoCaptor]
  /\ \E stream \in CaptureStreams, direct \in BOOLEAN :
        client = [IdleClient EXCEPT !.stream = stream, !.direct = direct]

NextCaptor ==
  \/ CaptorTick
  \/ CaptorStart(1)
  \/ CaptorTop(1)
  \/ CaptorGet(1)
  \/ CaptorFinal(1)
  \/ Receive(1)
  \/ DirectCapture(1)
  \/ CapturedSequence(1)
  \/ ModifyReturned
  \/ CaptorStop(1)

SpecCaptor == InitCaptor /\ [][NextCaptor]_vars

\* A captor that is fed and stopped, with nobody reading its sequence
\* meanwhile.
NextStop ==
  \/ CaptorTick
  \/ CaptorStart(1)
  \/ CaptorTop(1)
  \/ CaptorGet(1)
  \/ CaptorFinal(1)
  \/ Receive(1)
  \/ DirectCapture(1)
  \/ CaptorStop(1)

\* The captor thread takes every step it is able to take, a get() with a
\* timeout returns once the time is up, join() returns once the thread has
\* ended, and the clock goes on.
FairStop ==
  /\ WF_vars(CaptorTop(1))
  /\ WF_vars(CaptorGet(1))
  /\ WF_vars(CaptorFinal(1))
  /\ WF_vars(CaptorStopJoin(1))
  /\ WF_vars(CaptorTick)

SpecStop == InitCaptor /\ [][NextStop]_vars /\ FairStop

(***************************************************************************)
(* MidiHub.start_capture and MidiHub.capture_sequence, and SpecCapture: a  *)
(* hub whose client makes one of the two calls while the transport         *)
(* delivers messages and the captor thread runs.                           *)
(***************************************************************************)
\* Lines 610-619: the captor start_capture creates and starts, as captor c;
\* its sequence is a new object.
StartCapture(c, qpm, start_time, stop_time, stop_signal) ==
  /\ heap' = Append(heap, NoteSequence(qpm, 0, <<>>))
  /\ captor' = [captor EXCEPT ![c] =
                  [NewCaptor(texture = MONOPHONIC, Len(heap) + 1, start_time,
                             stop_time, stop_signal)
                     EXCEPT !.thread = "alive"]]
  /\ captureThreads' = Append(captureThreads, c)

FreeCaptor == CHOOSE c \in CaptorIds : captor[c].thread = "none"

\* Line 645: self.start_capture(start_time, qpm, stop_time, stop_signal).
CaptureSequenceStart(c, qpm, start_time, stop_time, stop_signal) ==
  StartCapture(c, start_time, qpm, stop_time, stop_signal)

\* A client calls hub.start_capture(qpm, start_time, stop_time, stop_signal).
StartCaptureCall(qpm, start_time, stop_time, stop_signal) ==
  /\ client.hub.pc = "idle"
  /\ \E c \in CaptorIds : captor[c].thread = "none"
  /\ StartCapture(FreeCaptor, qpm, start_time, stop_time, stop_signal)
  /\ client' = [client EXCEPT !.hub =
                  [pc |-> "started", via |-> "start_capture", qpm |-> qpm,
                   start_time |-> start_time, stop_time |-> stop_time,
                   stop_signal |-> stop_signal, captor |-> FreeCaptor,
                   ret |-> 0, exc |-> "none"]]
  /\ UNCHANGED <<now, texture, passthrough, hubOpenNotes, signals, lastIn, nIn,
                 hubRaised, metronome, outport, waiter, playerVars>>

\* A client calls hub.capture_sequence(qpm, start_time, stop_time,
\* stop_signal), lines 641-646: the raise, or the captor started and the
\* caller in join().
CaptureSequenceCall(qpm, start_time, stop_time, stop_signal) ==
  /\ client.hub.pc = "idle"
  /\ \E c \in CaptorIds : captor[c].thread = "none"
  /\ IF stop_time = NoTime /\ stop_signal = NoMsg
     THEN /\ client' = [client EXCEPT !.hub =
                  [pc |-> "raised", via |-> "capture_sequence", qpm |-> qpm,
                   start_time |-> start_time, stop_time |-> stop_time,
                   stop_signal |-> stop_signal, captor |-> 0,
                   ret |-> 0, exc |-> "MidiHubException"]]
          /\ UNCHANGED <<heap, captor, captureThreads>>
     ELSE /\ CaptureSequenceStart(FreeCaptor, qpm, start_time, stop_time,
                                  stop_signal)
          /\ client' = [client EXCEPT !.hub =
                  [pc |-> "joining", via |-> "capture_sequence", qpm |-> qpm,
                   start_time |-> start_time, stop_time |-> stop_time,
                   stop_signal |-> stop_signal, captor |-> FreeCaptor,
                   ret |-> 0, exc |-> "none"]]
  /\ UNCHANGED <<now, texture, passthrough, hubOpenNotes, signals, lastIn, nIn,
                 hubRaised, metronome, outport, waiter, playerVars>>

\* captor.join() has returned and captor.captured_sequence() is called, by
\* capture_sequence (lines 646-647) or by the caller of start_capture.
CaptureJoined ==
  LET c   == client.hub.captor
      ref == CopyRef(heap, captor[c].seq)
  IN
  /\ client.hub.pc \in {"started", "joining"}
  /\ captor[c].thread = "dead"
  /\ ~CapturedSequenceRaises(FALSE, NoTime)
  /\ heap' = [WithCopy(heap, captor[c].seq) EXCEPT
                ![ref] = Returned(heap[captor[c].seq], FALSE, NoTime)]
  /\ client' = [client EXCEPT !.hub.pc = "returned", !.hub.ret = ref]
  /\ UNCHANGED <<now, hubVars, outport, waiter, captor, playerVars>>

HubCapture ==
  \/ \E start_time \in {0, 1}, stop_time \in {NoTime, 2},
        stop_signal \in {NoMsg, Message("note_on", 60, 64, 0, 0)} :
       \/ StartCaptureCall(120, start_time, stop_time, stop_signal)
       \/ CaptureSequenceCall(120, start_time, stop_time, stop_signal)
  \/ CaptureJoined

\* The transport delivers a message that may be somebody's signal.
DispatchSignal == \E m \in SignalMsgs : TimestampAndHandleMessage(m)

CaptorRun ==
  \E c \in CaptorIds : CaptorTop(c) \/ CaptorGet(c) \/ CaptorFinal(c)

InitCapture ==
  /\ now = 1
  /\ outport = <<>>
  /\ InitHub
  /\ ~passthrough
  /\ InitPlayerNone
  /\ InitCaptorsNone

NextCapture ==
  \/ Tick
  \/ DispatchSignal
  \/ HubCapture
  \/ CaptorRun

SpecCapture == InitCapture /\ [][NextCapture]_vars

(***************************************************************************)
(* MidiHub.start_capture step by step.  The hub's lock is held for the     *)
(* append of line 617 only: the transport's callback can run between the   *)
(* registration and the captor.start() of line 618.  A captor with thread  *)
(* "new" is one that start_capture has registered and not yet started.     *)
(***************************************************************************)
\* Lines 612-617: the captor constructed and appended to _capture_threads.
RegisterCaptor(c, qpm, start_time, stop_time, stop_signal) ==
  /\ captor[c].thread = "none"
  /\ heap' = Append(heap, NoteSequence(qpm, 0, <<>>))
  /\ captor' = [captor EXCEPT ![c] =
                  NewCaptor(texture = MONOPHONIC, Len(heap) + 1, start_time,
                            stop_time, stop_signal)]
  /\ captureThreads' = Append(captureThreads, c)
  /\ UNCHANGED <<now, texture, passthrough, hubOpenNotes, signals, lastIn, nIn,
                 hubRaised, metronome, outport, waiter, client, playerVars>>

\* A client thread enters start_capture.
Register ==
  /\ \E c \in CaptorIds : captor[c].thread = "none"
  /\ \E stop_time \in {NoTime, 2} :
        RegisterCaptor(FreeCaptor, 120, 0, stop_time, NoMsg)

\* Line 618: captor.start(), outside the lock.
StartRegistered == \E c \in CaptorIds : CaptorStart(c)

\* The messages the transport delivers while captors are registered.
RegisterMsgs ==
  {Message("note_on", 60, 64, 0, 0), Message("program_change", 5, 0, 0, 0)}

DispatchToCaptors == \E m \in RegisterMsgs : TimestampAndHandleMessage(m)

InitRegister ==
  /\ now = 1
  /\ outport = <<>>
  /\ InitHub
  /\ ~passthrough
  /\ InitPlayerNone
  /\ InitCaptorsNone

NextRegister ==
  \/ Tick
  \/ DispatchToCaptors
  \/ Register
  \/ StartRegistered
  \/ CaptorRun

SpecRegister == InitRegister /\ [][NextRegister]_vars

(***************************************************************************)
(* SpecProgramChange: a hub of any texture and passthrough setting with    *)
(* threads waiting for a program change or a note-on and a captor running, *)
(* while the transport delivers program changes and note-ons.              *)
(***************************************************************************)
ProgramChange == Message("program_change", 5, 0, 0, 0)

DispatchProgramChange ==
  \E m \in {ProgramChange, Message("note_on", 60, 64, 0, 0)} :
     TimestampAndHandleMessage(m)

WaitForProgramChange ==
  \E w \in Waiters :
     \/ \E m \in {ProgramChange, Message("note_on", 60, 64, 0, 0)} :
          CallWaitForSignal(w, m)
     \/ EnterWait(w)
     \/ ReturnFromWait(w)

InitProgramChange ==
  /\ now = 1
  /\ outport = <<>>
  /\ InitHub
  /\ InitPlayerNone
  /\ InitCaptorsNone

NextProgramChange ==
  \/ DispatchProgramChange
  \/ WaitForProgramChange
  \/ \E stop_signal \in {NoMsg, ProgramChange} :
       StartCaptureCall(120, 0, NoTime, stop_signal)
  \/ \E c \in CaptorIds : CaptorTop(c) \/ CaptorGet(c)

SpecProgramChange == InitProgramChange /\ [][NextProgramChange]_vars

(***************************************************************************)
(* SpecMetronome: a hub whose client calls start_metronome and             *)
(* stop_metronome, and a Metronome constructed beside it (metronome 1)     *)
(* whose thread is started, ticks and is stopped.                          *)
(***************************************************************************)
InitMetronome ==
  /\ now = 1
  /\ outport = <<>>
  /\ texture = POLYPHONIC
  /\ passthrough = FALSE
  /\ hubOpenNotes = {}
  /\ signals = {}
  /\ captureThreads = <<>>
  /\ lastIn = NoMsg
  /\ nIn = 0
  /\ hubRaised = "none"
  /\ waiter = [w \in Waiters |-> IdleWaiter]
  /\ InitPlayerNone
  /\ InitCaptorsNone
  /\ \E start_time \in {0, 1, 4}, qpm \in {60, 30, 20} :
        metronome = [NoMetronome EXCEPT !.obj[1] = NewMetronome(start_time, qpm)]

NextMetronome ==
  \/ MetroTick
  \/ \E m \in MetroIds :
       \/ MetroStart(m)
       \/ MetroTop(m)
       \/ MetroDelta(m)
       \/ MetroWake(m)
       \/ MetroTickOn(m)
       \/ MetroTickOff(m)
       \/ MetroStopCall(m)
       \/ MetroStopJoin(m)
  \/ \E start_time \in {0, 4}, qpm \in {60, 30} : StartMetronome(start_time, qpm)
  \/ StopMetronome

SpecMetronome == InitMetronome /\ [][NextMetronome]_vars

(***************************************************************************)
(* Properties.                                                             *)
(***************************************************************************)
\* The step is a dispatch: the transport delivered a message and the hub
\* passed it to _handle_message.
Dispatched == nIn' = nIn + 1 /\ lastIn'.type # "program_change"

\* Same kind, pitch, velocity and channel; the time is not compared.
Matches(a, b) ==
  /\ a.type = b.type
  /\ a.note = b.note
  /\ a.velocity = b.velocity
  /\ a.channel = b.channel

\* C1: under monophonic texture the hub's open-notes set holds at most one
\* pitch, whatever messages were dispatched and however passthrough was set.
C1_MonoAtMostOneOpen ==
  texture = MONOPHONIC => Cardinality(hubOpenNotes) <= 1

\* C1 witness: a second note-on arrived while a pitch was sounding.
C1_Witness ==
  /\ texture = MONOPHONIC
  /\ hubOpenNotes = {64}
  /\ Len(outport) = 3
  /\ outport[1].note = 60

\* C2: under monophonic passthrough a dispatched note-on sends a synthesized
\* note-off for the sounding pitch (if any) and then the note-on itself, and
\* nothing else; the new pitch is then the one recorded as sounding.
C2_ForcedCloseThenNoteOn ==
  [][ (texture = MONOPHONIC /\ passthrough /\ Dispatched
         /\ lastIn'.type = "note_on")
      => /\ Len(outport') = Len(outport) + Cardinality(hubOpenNotes) + 1
         /\ SubSeq(outport', 1, Len(outport)) = outport
         /\ outport'[Len(outport')] = lastIn'
         /\ \A p \in hubOpenNotes :
               /\ outport'[Len(outport) + 1].type = "note_off"
               /\ outport'[Len(outport) + 1].note = p
         /\ hubOpenNotes' = {lastIn'.note} ]_vars

\* C2 witness: note_on(60) then note_on(64) were fed and the output is
\* note_on(60), note_off(60), note_on(64).
C2_Witness ==
  /\ texture = MONOPHONIC
  /\ nIn = 2
  /\ Len(outport) = 3
  /\ outport[1].type = "note_on"  /\ outport[1].note = 60
  /\ outport[2].type = "note_off" /\ outport[2].note = 60
  /\ outport[3].type = "note_on"  /\ outport[3].note = 64

\* C5 (as stated): a thread in wait_for_signal(m) stops waiting only when a
\* message matching m is dispatched, and every matching message dispatched
\* after its call began unblocks it.
C5_UnblockedByEveryMatchSinceCall ==
  [][ \A w \in Waiters :
        /\ (waiter[w].pc = "waiting" /\ waiter'[w].pc # "waiting")
             => (Dispatched /\ Matches(lastIn', waiter[w].msg)
                   /\ waiter'[w].pc = "notified")
        /\ (waiter[w].pc \in {"called", "waiting"} /\ Dispatched
              /\ Matches(lastIn', waiter[w].msg))
             => waiter'[w].pc = "notified" ]_vars

\* C5 (amended): a thread waiting on the Condition of m stops waiting only
\* when a message matching m is dispatched, and every matching message
\* dispatched while it waits on the Condition unblocks it.
C5_UnblockedByEveryMatchWhileWaiting ==
  [][ \A w \in Waiters :
        /\ (waiter[w].pc = "waiting" /\ waiter'[w].pc # "waiting")
             => (Dispatched /\ Matches(lastIn', waiter[w].msg)
                   /\ waiter'[w].pc = "notified")
        /\ (waiter[w].pc = "waiting" /\ Dispatched
              /\ Matches(lastIn', waiter[w].msg))
             => waiter'[w].pc = "notified" ]_vars

\* C5 witness: one thread was unblocked by its message and returned while
\* another, waiting for a different message, still waits.
C5_Witness ==
  /\ waiter[1].pc = "returned"
  /\ waiter[2].pc = "waiting"
  /\ ~Matches(waiter[1].msg, waiter[2].msg)
  /\ lastIn.time # waiter[1].msg.time

\* The place in the output of the last message of the type for the pitch, or 0.
LastSent(type, p) ==
  LET at == {i \in DOMAIN outport : outport[i].type = type /\ outport[i].note = p}
  IN IF at = {} THEN 0 ELSE CHOOSE i \in at : \A j \in at : j <= i

C4_OrphanedNoteClosedAtOldEnd ==
  [][ (player.allow /\ plClient'.updates = plClient.updates + 1)
      => \A i \in DOMAIN plClient.handed :
           LET n == plClient.handed[i] IN
           (n.start_time <= now /\ now < n.end_time
              /\ n.pitch \notin PitchesOf(plClient'.handed))
           => /\ Cardinality({k \in DOMAIN player'.queue :
                                 /\ player'.queue[k].type = "note_off"
                                 /\ player'.queue[k].note = n.pitch}) = 1
              /\ \E k \in DOMAIN player'.queue :
                    /\ player'.queue[k].type = "note_off"
                    /\ player'.queue[k].note = n.pitch
                    /\ player'.queue[k].time = n.end_time ]_vars


(***************************************************************************)
(* Properties of the captor (SpecCaptor).                                  *)
(***************************************************************************)
\* The notes of a sequence object as <<pitch, start_time, end_time>>.
NoteTriples(obj) ==
  [i \in DOMAIN heap[obj].notes |->
     <<heap[obj].notes[i].pitch, heap[obj].notes[i].start_time,
       heap[obj].notes[i].end_time>>]

\* The thread of captor c has nothing left to do: it has ended, or it waits
\* in get() on an empty queue.
Quiescent(c) ==
  \/ captor[c].thread = "dead"
  \/ IsAlive(c) /\ captor[c].pc = "get" /\ captor[c].queue = <<>>

\* Captor c, started with a window open from before time 0 and never
\* stopped, has been handed the whole example stream through receive.
CapturedExample(c) ==
  /\ captor[c].thread \in {"alive", "dead"}
  /\ captor[c].start_time < 0
  /\ captor[c].stop_time = NoTime
  /\ ~client.direct
  /\ client.stream = ExampleStream
  /\ client.fed = Len(ExampleStream)
  /\ Quiescent(c)

\* C6: a monophonic captor's sequence has at most one open note at any time,
\* and once it has captured [note_on(60,t=0), note_on(64,t=1),
\* note_off(60,t=2), note_off(64,t=3)] its sequence is exactly the notes
\* (60,0,1) and (64,1,3).
C6_MonoCaptureOfExample ==
  \A c \in CaptorIds :
    captor[c].thread # "none" /\ captor[c].mono =>
      /\ Cardinality({i \in DOMAIN heap[captor[c].seq].notes :
                        heap[captor[c].seq].notes[i].end_time = 0}) <= 1
      /\ Cardinality(captor[c].open) <= 1
      /\ CapturedExample(c) =>
           NoteTriples(captor[c].seq) = << <<60, 0, 1>>, <<64, 1, 3>> >>

\* C7: a polyphonic captor holds at most one open note per pitch, and once it
\* has captured the same stream its sequence is the overlapping notes
\* (60,0,2) and (64,1,3).
C7_PolyCaptureOfExample ==
  \A c \in CaptorIds :
    captor[c].thread # "none" /\ ~captor[c].mono =>
      /\ \A r1, r2 \in captor[c].open : r1.pitch = r2.pitch => r1 = r2
      /\ CapturedExample(c) =>
           NoteTriples(captor[c].seq) = << <<60, 0, 2>>, <<64, 1, 3>> >>

\* _capture_message itself, handed the example stream directly on a running
\* captor, builds the notes the two captors are meant to capture.
DirectCaptureOfExample ==
  /\ IsAlive(1)
  /\ client.direct
  /\ client.stream = ExampleStream
  /\ client.fed = Len(ExampleStream)
  => NoteTriples(captor[1].seq) =
       IF captor[1].mono THEN << <<60, 0, 1>>, <<64, 1, 3>> >>
       ELSE << <<60, 0, 2>>, <<64, 1, 3>> >>

\* The step in which captured_sequence(end_time) returns on a running captor.
RunningReturn ==
  /\ client.pc = "copied"
  /\ client'.pc = "idle"
  /\ IsAlive(1)
  /\ client.arg # NoTime

\* C8: captured_sequence(end_time) on a running capture returns a copy in
\* which every open note that started at or before end_time ends at end_time,
\* no note ends after end_time, and total_time is end_time.
C8_RunningCopyClosedAndClipped ==
  [][RunningReturn =>
       LET before == heap[client.tmp].notes
           after  == heap'[client'.ret].notes
       IN /\ client'.ret # 0
          /\ \A i \in DOMAIN before :
               before[i].end_time = 0 /\ before[i].start_time <= client.arg =>
                 i \in DOMAIN after /\ after[i].end_time = client.arg
          /\ \A i \in DOMAIN after : after[i].end_time <= client.arg
          /\ heap'[client'.ret].total_time = client.arg]_vars

\* C9: captured_sequence(end_time) on a running capture returns exactly the
\* notes before the first one that starts strictly after end_time.
C9_RunningCopyIsPrefixBeforeFirstLate ==
  [][RunningReturn =>
       LET before == heap[client.tmp].notes
           after  == heap'[client'.ret].notes
           late   == {i \in DOMAIN before : before[i].start_time > client.arg}
           n      == IF late = {} THEN Len(before)
                     ELSE (CHOOSE i \in late : \A j \in late : i <= j) - 1
       IN /\ client'.ret # 0
          /\ Len(after) = n
          /\ \A i \in 1..n : /\ after[i].pitch = before[i].pitch
                             /\ after[i].velocity = before[i].velocity
                             /\ after[i].start_time = before[i].start_time]_vars

\* The step in which captured_sequence() returns, called with no end_time
\* after the thread had ended.
PostStopReturn ==
  /\ client.pc = "copied"
  /\ client'.pc = "idle"
  /\ client.dead0
  /\ client.arg = NoTime

\* C10: captured_sequence() after the thread has ended returns a new object
\* equal to the stored sequence and to what the first such call returned,
\* and leaves the stored sequence as it was; changing a returned copy leaves
\* the stored sequence as it was.
C10_FinalCopiesIdentical ==
  [][/\ PostStopReturn =>
          /\ client'.exc = "none"
          /\ client'.ret # 0
          /\ client'.ret # captor[1].seq
          /\ heap'[client'.ret] = heap[captor[1].seq]
          /\ client.finals > 0 => heap'[client'.ret] = client.final
          /\ captor' = captor
          /\ heap'[captor[1].seq] = heap[captor[1].seq]
     /\ client'.modified /\ ~client.modified =>
          heap'[captor[1].seq] = heap[captor[1].seq]]_vars

\* C10 witness: the thread has ended with a note in the stored sequence, a
\* first call's copy was changed, and a second call has returned a copy
\* equal to the first one's value.
C10_Witness ==
  /\ captor[1].thread = "dead"
  /\ heap[captor[1].seq].notes # <<>>
  /\ client.finals = 2
  /\ client.modified
  /\ client.pc = "idle"
  /\ client.ret # 0
  /\ heap[client.ret] = client.final


\* The step in which a captured_sequence call ends, by return or by raise.
CallEnds ==
  /\ client.pc = "copied"
  /\ client'.pc = "idle"

C12_StopOfIdleCaptorRaises ==
  [][/\ client.stop = "idle"
     /\ client'.stop # "idle"
     /\ captor[1].thread \in {"new", "dead"}
     => /\ client'.stop = "raised"
        /\ client'.exc = "MidiHubException"
        /\ captor'[1].stop_time = captor[1].stop_time
        /\ heap'[captor'[1].seq] = heap[captor[1].seq]]_vars

(***************************************************************************)
(* Properties of start_capture / capture_sequence (SpecCapture).           *)
(***************************************************************************)
\* The thread of captor c takes a message of its capture window off its
\* queue.
TakesInWindow(c) ==
  /\ IsAlive(c)
  /\ captor[c].pc = "get"
  /\ captor[c].queue # <<>>
  /\ Head(captor[c].queue) # WakeMsg
  /\ Head(captor[c].queue).time > captor[c].start_time
  /\ captor'[c].queue = Tail(captor[c].queue)

\* C13: a running captor that takes an in-window message leaves its loop for
\* the final step if the message has the stop signal's kind, pitch, velocity
\* and channel, and goes on capturing otherwise; its thread ends only past
\* the loop, on such a message or once the stop time is reached.
C13_EndsOnSignalOrStopTime ==
  [][\A c \in CaptorIds :
       /\ TakesInWindow(c) =>
            IF /\ captor[c].stop_signal # NoMsg
               /\ Matches(Head(captor[c].queue), captor[c].stop_signal)
            THEN captor'[c].thread = "alive" /\ captor'[c].pc = "final"
            ELSE captor'[c].thread = "alive" /\ captor'[c].pc = "top"
       /\ IsAlive(c) /\ captor'[c].thread = "dead" =>
            /\ captor[c].pc = "final"
            /\ captor'[c].exc = "none"]_vars

\* The step in which hub.capture_sequence is called.
CaptureSequenceCalled ==
  /\ client.hub.pc = "idle"
  /\ client'.hub.via = "capture_sequence"

\* C14: capture_sequence(qpm, start_time, stop_time, stop_signal) with neither
\* stop condition raises MidiHubException and starts no captor; otherwise it
\* starts the captor start_capture starts for the same arguments (the
\* caller's qpm the tempo of its sequence, the caller's start_time the start
\* of its window), and what it returns is that captor's captured_sequence().
C14_CaptureSequenceAsStartCapture ==
  [][/\ CaptureSequenceCalled =>
          LET h == client'.hub IN
          IF h.stop_time = NoTime /\ h.stop_signal = NoMsg
          THEN /\ h.pc = "raised"
               /\ h.exc = "MidiHubException"
               /\ UNCHANGED <<captor, heap, captureThreads>>
          ELSE /\ h.pc = "joining"
               /\ captureThreads' = Append(captureThreads, h.captor)
               /\ captor'[h.captor].thread = "alive"
               /\ captor'[h.captor].start_time = h.start_time
               /\ captor'[h.captor].stop_time = h.stop_time
               /\ captor'[h.captor].stop_signal = h.stop_signal
               /\ heap'[captor'[h.captor].seq] = NoteSequence(h.qpm, 0, <<>>)
     /\ client.hub.via = "capture_sequence" /\ client.hub.pc = "joining"
          /\ client'.hub.pc = "returned" =>
            /\ captor[client.hub.captor].thread = "dead"
            /\ heap'[client'.hub.ret] = heap[captor[client.hub.captor].seq]
            /\ heap'[client'.hub.ret].qpm = client.hub.qpm]_vars

(***************************************************************************)
(* Further properties of the player (SpecPlayer).                          *)
(***************************************************************************)
\* update_sequence on a player whose updates are disabled (at construction
\* or by stop()) raises MidiHubException and leaves the player, its queue
\* and its open pitches as they were.
UpdateOfDisabledPlayerRaises ==
  [][plClient'.updates = plClient.updates + 1 /\ ~player.allow =>
       /\ plClient'.exc = "MidiHubException"
       /\ player' = player]_vars

\* C15: constructing a player from a one-tempo sequence installs the
\* schedule of that sequence whether or not updates are allowed afterwards,
\* and update_sequence on a player whose updates are disabled raises
\* MidiHubException and leaves queue and open pitches unchanged.
C15_DisabledUpdatesKeepSchedule ==
  /\ player.state # "MidiHubException" =>
       /\ player.state = "ok"
       /\ player.queue = SortedByTime(NewMessageList(plClient.handed, now))
  /\ UpdateOfDisabledPlayerRaises

(***************************************************************************)
(* Further properties of the hub (SpecHub).                                *)
(***************************************************************************)
\* The pitches left sounding by what was sent to the output: those whose
\* last note message is a note-on of non-zero velocity.
SoundingPitches ==
  {p \in Pitches :
     \E i \in DOMAIN outport :
        /\ outport[i].note = p
        /\ outport[i].type = "note_on" /\ outport[i].velocity > 0
        /\ \A j \in DOMAIN outport :
             j > i /\ outport[j].note = p =>
               outport[j].type \notin {"note_on", "note_off"}}

\* A step of the passthrough setter (of SpecHub's steps, the one that is
\* neither a delivery of the transport nor a tick of the clock).
SetterStep == nIn' = nIn /\ now' = now

\* C16: the passthrough setter, called with the current value, sends nothing
\* and changes neither the flag nor the open-notes set; called to disable
\* passthrough it appends to the output exactly one synthesized note-off for
\* each pitch of the open-notes set and empties the set, and with passthrough
\* off no pitch is left sounding.
C16_DisablingClosesOpenNotes ==
  /\ [][SetterStep =>
          IF passthrough' = passthrough
          THEN UNCHANGED <<outport, hubOpenNotes, texture, signals,
                           captureThreads>>
          ELSE ~passthrough' =>
                 /\ hubOpenNotes' = {}
                 /\ Len(outport') = Len(outport) + Cardinality(hubOpenNotes)
                 /\ SubSeq(outport', 1, Len(outport)) = outport
                 /\ \A p \in hubOpenNotes :
                      \E i \in (Len(outport) + 1)..Len(outport') :
                         outport'[i] = SynthNoteOff(p)]_vars
  /\ [](~passthrough => hubOpenNotes = {} /\ SoundingPitches = {})

\* C16 witness: passthrough has been switched off with two pitches open, and
\* the output ends with their two synthesized note-offs.
C16_Witness ==
  /\ ~passthrough
  /\ hubOpenNotes = {}
  /\ Len(outport) = 4
  /\ {outport[1].note, outport[2].note} = {60, 64}
  /\ outport[1].type = "note_on" /\ outport[2].type = "note_on"
  /\ {outport[3], outport[4]} = {SynthNoteOff(60), SynthNoteOff(64)}

\* C17: the delivery of a program-change message changes nothing of the
\* hub: no waiter is woken, no captor is handed anything, nothing is sent to
\* the output, and flag, texture, open-notes set, signal registry and list
\* of live captors stay as they were.
C17_ProgramChangeChangesNothing ==
  [][nIn' = nIn + 1 /\ lastIn'.type = "program_change" =>
       UNCHANGED <<waiter, captor, heap, outport, hubOpenNotes, captureThreads,
                   signals, passthrough, texture, hubRaised>>]_vars

\* C17 witness: a note-on and then a program change have been delivered to
\* a hub with passthrough on; the note-on is open and in the queue of a live
\* captor of the hub's list, the program change is in no queue, and a thread
\* waits for a program change.
C17_Witness ==
  /\ nIn = 2
  /\ lastIn.type = "program_change"
  /\ passthrough
  /\ hubOpenNotes = {60}
  /\ Len(outport) = 1
  /\ \E w \in Waiters :
        waiter[w].pc = "waiting" /\ waiter[w].msg.type = "program_change"
  /\ \E i \in DOMAIN captureThreads :
        /\ IsAlive(captureThreads[i])
        /\ Len(captor[captureThreads[i]].queue) = 1
        /\ captor[captureThreads[i]].queue[1].type = "note_on"

\* C20: under monophonic passthrough the delivery of a note-off for the
\* sounding pitch appends that note-off to the output, leaves the open-notes
\* set empty and ends without an exception.
C20_MonoNoteOffClearsOpenNote ==
  [][/\ Dispatched
     /\ texture = MONOPHONIC
     /\ passthrough
     /\ lastIn'.type = "note_off"
     /\ lastIn'.note \in hubOpenNotes
     => /\ outport' = Append(outport, lastIn')
        /\ hubOpenNotes' = {}
        /\ hubRaised' = "none"]_vars

(***************************************************************************)
(* Properties of the metronome (SpecMetronome).                            *)
(***************************************************************************)
\* The step in which a start_metronome or stop_metronome call is made.
MetronomeCalled == metronome'.call.n = metronome.call.n + 1

\* C18: start_metronome(start_time, qpm) ends without an exception and
\* leaves the hub owning exactly one metronome, running, with that
\* start_time and qpm, any metronome it owned before stopped; stop_metronome
\* ends without an exception and leaves the hub owning none, and changes
\* nothing when it owned none.
C18_AtMostOneMetronome ==
  [][MetronomeCalled =>
       LET before == metronome.attr
           after  == metronome'.attr
       IN /\ metronome'.call.exc = "none"
          /\ before \in MetroIds /\ after # before =>
               metronome'.obj[before].thread \in {"dead", "none"}
          /\ IF metronome'.call.op = "start"
             THEN /\ after \in MetroIds
                  /\ metronome'.obj[after].thread = "alive"
                  /\ metronome'.obj[after].start_time = metronome'.call.start_time
                  /\ metronome'.obj[after].qpm = metronome'.call.qpm
             ELSE /\ after = 0
                  /\ before = 0 => metronome'.obj = metronome.obj]_vars

\* C19: the target a running metronome has computed from the time `at` is
\* start_time plus a whole number of periods, lies strictly after `at`, and
\* is the first such instant: one period earlier is not after `at`.
C19_TargetsOnStartTimeGrid ==
  \A m \in MetroIds :
    MetroAlive(m) /\ metronome.obj[m].pc \in {"delta", "sleep", "spin", "on"} =>
      LET o      == metronome.obj[m]
          period == Period(o.qpm)
      IN /\ period * o.qpm = 60
         /\ o.target > o.at
         /\ (o.target - o.start_time) % period = 0
         /\ o.target - period <= o.at

\* C19 witness: a metronome with start_time 4 and period 2, started at time
\* 1 and so before its start_time, has targeted 2 = 4 - 1*2 and sent that
\* tick.
C19_Witness ==
  /\ MetroAlive(1)
  /\ metronome.obj[1].start_time = 4
  /\ Period(metronome.obj[1].qpm) = 2
  /\ metronome.obj[1].at = 1
  /\ metronome.obj[1].target = 2
  /\ metronome.obj[1].pc = "on"
  /\ outport # <<>>

(***************************************************************************)
(* Termination of the playback thread (SpecPlayerLive).                    *)
(***************************************************************************)
\* C21: a started playback thread whose queue is empty while updates are
\* disabled eventually terminates, and a stop() that waits in join() for a
\* started thread eventually returns.
C21_PlaybackThreadTerminates ==
  /\ (player.thread = "started" /\ player.queue = <<>> /\ ~player.allow)
        ~> ThreadExited
  /\ (plClient.stop = "joining" /\ player.thread = "started")
        ~> (plClient.stop = "returned")

(***************************************************************************)
(* Registration and delivery with several captors (SpecRegister).          *)
(***************************************************************************)
\* Captor c has been registered by start_capture and has not finished.
Unfinished(c) == captor[c].thread \in {"new", "alive"}

\* The step in which the transport delivers a message that is not a program
\* change.
Delivers == nIn' = nIn + 1 /\ lastIn'.type # "program_change"

\* C22: a captor registered by start_capture stays in the hub's list of
\* live captors until it has finished, and every message other than a
\* program change that is delivered between its registration and its end is
\* appended to its queue.
C22_RegisteredCaptorReceivesAll ==
  /\ [](\A c \in CaptorIds : Unfinished(c) => c \in Range(captureThreads))
  /\ [][Delivers =>
          \A c \in CaptorIds :
             Unfinished(c) => captor'[c].queue = Append(captor[c].queue, lastIn')]_vars

(***************************************************************************)
(* stop() of a running captor (SpecStop).                                  *)
(***************************************************************************)
\* The stored sequence of captor c is final for its stop time: no note is
\* open (an open note has no end_time) and total_time is the stop time.
FinalAtStopTime(c) ==
  LET seq == heap[captor[c].seq] IN
  /\ \A i \in DOMAIN seq.notes : seq.notes[i].end_time # 0
  /\ seq.total_time = captor[c].stop_time

\* stop() called on a running captor eventually returns.
StopOfRunningCaptorReturns ==
  (client.stop = "joining" /\ IsAlive(1)) ~> (client.stop = "returned")

\* C23: stop(stop_time) on a running captor eventually returns, and then
\* the captor thread has ended and the stored sequence has no open note and
\* has the stop time (the time of the call when none was given) as its
\* total_time.
C23_StopReturnsWithFinalSequence ==
  (client.stop = "joining" /\ IsAlive(1))
    ~> (/\ client.stop = "returned"
        /\ captor[1].thread = "dead"
        /\ FinalAtStopTime(1))

(***************************************************************************)
(* Order of playback (SpecPlayer).                                         *)
(***************************************************************************)
\* The messages of a queue or of the output are in ascending schedule time.
AscendingTimes(msgs) ==
  \A i, j \in DOMAIN msgs : i <= j => msgs[i].time <= msgs[j].time

\* C24: the pending queue of a constructed player is sorted by ascending
\* scheduled time at all times, so after construction, update_sequence and
\* stop; whatever reaches the output is the head of the queue, taken off it
\* when its scheduled time has been reached; and the output is in
\* non-decreasing schedule order.
C24_QueueSortedAndSentInOrder ==
  /\ [](player.state = "ok" => AscendingTimes(player.queue))
  /\ [](AscendingTimes(outport))
  /\ [][outport' # outport =>
          /\ player.queue # <<>>
          /\ outport' = Append(outport, Head(player.queue))
          /\ player'.queue = Tail(player.queue)
          /\ Head(player.queue).time <= now]_vars

\* C24 witness: a player handed the note starting at 3 before the note
\* starting at 2 has sent the two note-ons in schedule order, was then
\* stopped, and has sent the two note-offs stop() queued.
C24_Witness ==
  /\ player.state = "ok"
  /\ plClient.stop = "joining"
  /\ Len(outport) = 4
  /\ outport[1] = Message("note_on", 60, 64, 0, 2)
  /\ outport[2] = Message("note_on", 64, 64, 0, 3)
  /\ outport[3].type = "note_off" /\ outport[4].type = "note_off"
  /\ {outport[3].note, outport[4].note} = {60, 64}
  /\ player.queue = <<>>

(***************************************************************************)
(* Order of delivery and capture with several captors (SpecRegister).      *)
(***************************************************************************)
\* A delivery appends the message to the queue of every running captor of
\* the hub's list and to no other queue, and any other change of a queue
\* takes its head off: the queues are FIFO.
QueuesAreFifo ==
  [][\A c \in CaptorIds :
       IF Delivers /\ IsAlive(c) /\ c \in Range(captureThreads)
       THEN captor'[c].queue = Append(captor[c].queue, lastIn')
       ELSE \/ captor'[c].queue = captor[c].queue
            \/ /\ captor[c].queue # <<>>
               /\ captor'[c].queue = Tail(captor[c].queue)]_vars

\* C25: each delivered message is appended to the queue of every running
\* captor; a captor takes its messages off the head of its queue; and each
\* message of its window that it takes is captured into its sequence, the
\* thread going on to the next one, so that every captor captures the
\* messages in the order of their delivery.
C25_AllCaptorsSameOrder ==
  /\ [][Delivers =>
          \A c \in CaptorIds :
             IsAlive(c) => captor'[c].queue = Append(captor[c].queue, lastIn')]_vars
  /\ QueuesAreFifo
  /\ [][\A c \in CaptorIds :
          TakesInWindow(c) =>
            /\ captor'[c].thread = "alive"
            /\ captor'[c].pc = "top"
            /\ heap' = CaptureResult(heap, captor[c], Head(captor[c].queue)).heap]_vars

====
